---- MODULE Spec2Model ----
(***************************************************************************)
(* Model of the file utilities of Python-Tool-Bucket:                      *)
(*   splitZip.py       split_zip_file, main (the size prompt)              *)
(*   reassembleZip.py  natural_sort_key, reassemble_files                  *)
(*   optWebPImages.py  resize_image (the quality search)                   *)
(*                                                                         *)
(* File names are sequences of one-character strings, file contents are    *)
(* sequences of small integers (bytes).  The file system is a function     *)
(* from paths <<directory, name>> to contents; the reassembler runs with   *)
(* the directory "out" as its working directory.                           *)
(***************************************************************************)
EXTENDS Integers, Sequences, FiniteSets, TLC

VARIABLES
  fs,      \* the files: path |-> bytes
  env,     \* [readable: the source may be read, dir: state of the output directory]
  last,    \* the operation that ran last, with its arguments and result
  prev,    \* the operation that ran before it
  pre,     \* fs as the last operation found it
  steps,   \* operations run so far
  img      \* resize_image's locals and its output file

vars == <<fs, env, last, prev, pre, steps, img>>

(***************************************************************************)
(* Bounds of the model.                                                    *)
(***************************************************************************)
MaxLen == 3          \* longest source file, in bytes
MaxOps == 2          \* operations in one behaviour of Spec
MaxDirFiles == 3     \* files in the directory the reassembler starts in (SpecDir)

(***************************************************************************)
(* Characters.  Python compares str by code point.                         *)
(***************************************************************************)
Digits == <<"0", "1", "2", "3", "4", "5", "6", "7", "8", "9">>

DigitSet == {Digits[i] : i \in 1..10}

DigitVal(c) == (CHOOSE i \in 1..10 : Digits[i] = c) - 1

Ord(c) ==
  CASE c = "." -> 46
    [] c \in DigitSet -> 48 + DigitVal(c)
    [] c = "A" -> 65
    [] c = "I" -> 73
    [] c = "P" -> 80
    [] c = "Z" -> 90
    [] c = "a" -> 97
    [] c = "b" -> 98
    [] c = "f" -> 102
    [] c = "i" -> 105
    [] c = "p" -> 112
    [] c = "r" -> 114
    [] c = "x" -> 120
    [] c = "z" -> 122

\* str.lower() on the characters of the model
Lower(c) ==
  CASE c = "A" -> "a"
    [] c = "I" -> "i"
    [] c = "P" -> "p"
    [] c = "Z" -> "z"
    [] OTHER -> c

LowerStr(s) == [i \in 1..Len(s) |-> Lower(s[i])]

\* str.isdigit(): non-empty and every character a digit
IsDigitStr(s) == s # <<>> /\ \A i \in 1..Len(s) : s[i] \in DigitSet

\* int(text) of a run of decimal digits
RECURSIVE IntOf(_)
IntOf(s) == IF s = <<>> THEN 0
            ELSE 10 * IntOf(SubSeq(s, 1, Len(s) - 1)) + DigitVal(s[Len(s)])

\* str < str: lexicographic by code point, a proper prefix is smaller
RECURSIVE StrLess(_, _)
StrLess(s, t) ==
  IF t = <<>> THEN FALSE
  ELSE IF s = <<>> THEN TRUE
  ELSE IF Ord(Head(s)) # Ord(Head(t)) THEN Ord(Head(s)) < Ord(Head(t))
  ELSE StrLess(Tail(s), Tail(t))

StartsWith(s, prefix) ==
  Len(prefix) <= Len(s) /\ SubSeq(s, 1, Len(prefix)) = prefix

(***************************************************************************)
(* reassembleZip.py: natural_sort_key                                      *)
(***************************************************************************)
\* length of the longest prefix of s whose characters are all digits (d = TRUE)
\* or all non-digits (d = FALSE)
RECURSIVE RunLen(_, _)
RunLen(s, d) ==
  IF s = <<>> \/ ((Head(s) \in DigitSet) # d) THEN 0
  ELSE 1 + RunLen(Tail(s), d)

\* re.split('([0-9]+)', s): text, digits, text, ..., text; a text run may be empty
RECURSIVE ReSplit(_)
ReSplit(s) ==
  LET n == RunLen(s, FALSE)
      text == SubSeq(s, 1, n)
      rest == SubSeq(s, n + 1, Len(s))
      m == RunLen(rest, TRUE)
  IN  IF rest = <<>> THEN <<text>>
      ELSE <<text, SubSeq(rest, 1, m)>> \o ReSplit(SubSeq(rest, m + 1, Len(rest)))

\* faulty variant: the key is the name itself, one text run (plain lexicographic order)
natural_sort_key_plain(s) == <<[int |-> FALSE, n |-> 0, text |-> s]>>

\* [int(text) if text.isdigit() else text.lower() for text in re.split(...)]
natural_sort_key(s) ==
  LET runs == ReSplit(s)
  IN  [i \in 1..Len(runs) |->
         IF IsDigitStr(runs[i])
         THEN [int |-> TRUE, n |-> IntOf(runs[i]), text |-> <<>>]
         ELSE [int |-> FALSE, n |-> 0, text |-> LowerStr(runs[i])]]

\* element < element.  Keys alternate text, int, text, ... from index 1, so the
\* elements compared at one index always have the same type.
ElemLess(a, b) == IF a.int /\ b.int THEN a.n < b.n ELSE StrLess(a.text, b.text)

\* list < list in Python: the first differing element decides, a proper prefix is smaller
RECURSIVE KeyLess(_, _)
KeyLess(k1, k2) ==
  IF k2 = <<>> THEN FALSE
  ELSE IF k1 = <<>> THEN TRUE
  ELSE IF Head(k1) # Head(k2) THEN ElemLess(Head(k1), Head(k2))
  ELSE KeyLess(Tail(k1), Tail(k2))

NaturalLess(a, b) == KeyLess(natural_sort_key(a), natural_sort_key(b))

\* sorted(names, key=natural_sort_key): the sort is stable and the directory is
\* listed in an order the program does not control, so names with equal keys may
\* come out in either order.
RECURSIVE SortedSeqs(_)
SortedSeqs(S) ==
  IF S = {} THEN {<<>>}
  ELSE UNION {{<<m>> \o t : t \in SortedSeqs(S \ {m})} :
                m \in {x \in S : \A y \in S : ~NaturalLess(y, x)}}

(***************************************************************************)
(* reassembleZip.py: reassemble_files                                      *)
(***************************************************************************)
OutDir == "out"
InDir == "in"

\* names of the files of directory d
Names(f, d) == {p[2] : p \in {q \in DOMAIN f : q[1] = d}}

\* Path().glob("*.*[0-9][0-9][0-9]"): a '.', anything, then three digits at the end
GlobMatch(name) ==
  /\ Len(name) >= 4
  /\ \A i \in Len(name) - 2 .. Len(name) : name[i] \in DigitSet
  /\ \E i \in 1 .. Len(name) - 3 : name[i] = "."

Prefixes(s) == {SubSeq(s, 1, n) : n \in 0..Len(s)}

\* The bytes the output file can end with.  Each part is read whole and appended.
\* A part that is the output file itself is read while it is being written: it
\* holds whatever prefix of the bytes written so far has been flushed.
RECURSIVE Concatenated(_, _, _, _)
Concatenated(f, parts, out, written) ==
  IF parts = <<>> THEN {written}
  ELSE IF Head(parts) = out
       THEN UNION {Concatenated(f, Tail(parts), out, written \o fl) :
                     fl \in Prefixes(written)}
       ELSE Concatenated(f, Tail(parts), out, written \o f[<<OutDir, Head(parts)>>])

\* faulty variant: the output file is opened before the parts are looked for
OpensOutput_always(all_files, parts) == TRUE

\* lines 18-40: open(output_file, 'wb') is reached only with parts to write
OpensOutput(all_files, parts) == all_files # <<>> /\ parts # <<>>

\* faulty variant: no filter on the entered base name
MatchesBase_any(name, base_name) == TRUE

\* line 32: str(f).startswith(base_name)
MatchesBase(name, base_name) == StartsWith(name, base_name)

NoOp == [op |-> "none"]

reassemble_files(base_name, output_file) ==
  /\ steps < MaxOps
  /\ \E all_files \in SortedSeqs({n \in Names(fs, OutDir) : GlobMatch(n)}) :
       LET parts == SelectSeq(all_files, LAMBDA n : MatchesBase(n, base_name))
           ret == IF all_files = <<>> THEN "no_split_files"
                  ELSE IF parts = <<>> THEN "no_match"
                  ELSE "success"
       IN  /\ IF OpensOutput(all_files, parts)
              THEN \E bytes \in Concatenated(fs, parts, output_file, <<>>) :
                     fs' = [p \in DOMAIN fs \cup {<<OutDir, output_file>>} |->
                              IF p = <<OutDir, output_file>> THEN bytes ELSE fs[p]]
              ELSE fs' = fs
           /\ last' = [op |-> "reassemble", ret |-> ret, all_files |-> all_files,
                       parts |-> parts,
                       \* the two prompts are reached only with split files detected
                       base_name |-> IF all_files = <<>> THEN <<>> ELSE base_name,
                       output_file |-> IF all_files = <<>> THEN <<>> ELSE output_file]
  /\ pre' = fs
  /\ prev' = last
  /\ steps' = steps + 1
  /\ UNCHANGED <<env, img>>

(***************************************************************************)
(* splitZip.py: split_zip_file                                             *)
(***************************************************************************)
PadWidth == 3

\* decimal digits of n >= 0
RECURSIVE DecStr(_)
DecStr(n) == IF n < 10 THEN <<Digits[n + 1]>>
             ELSE DecStr(n \div 10) \o <<Digits[(n % 10) + 1]>>

\* faulty variant: the counter is not padded
Fmt03d_unpadded(n) == DecStr(n)

\* f"{part_num:03d}": zero-padded to at least three digits
Fmt03d(n) ==
  LET d == DecStr(n)
  IN  IF Len(d) >= PadWidth THEN d
      ELSE [i \in 1 .. PadWidth - Len(d) |-> "0"] \o d

\* index of the last '.' of name, 0 when there is none
LastDot(name) ==
  LET dots == {i \in 1..Len(name) : name[i] = "."}
  IN  IF dots = {} THEN 0 ELSE CHOOSE i \in dots : \A j \in dots : j <= i

\* pathlib: the suffix starts at the last '.', unless that is the first or the
\* last character of the name
Suffix(name) ==
  LET i == LastDot(name)
  IN  IF 1 < i /\ i < Len(name) THEN SubSeq(name, i, Len(name)) ELSE <<>>

Stem(name) == SubSeq(name, 1, Len(name) - Len(Suffix(name)))

DotZipDot == <<".", "z", "i", "p", ".">>
DotZip == <<".", "z", "i", "p">>

\* faulty variant: the part number is left out of the name
PartFilename_unnumbered(output_dir, input_name, part_num) ==
  <<output_dir, Stem(input_name) \o DotZip>>

\* lines 29, 43: f"{output_dir / input_zip_path.stem}.zip.{part_num:03d}"
PartFilename(output_dir, input_name, part_num) ==
  <<output_dir, Stem(input_name) \o DotZipDot \o Fmt03d(part_num)>>

\* faulty variant: a chunk shorter than asked for is taken for the end of the file
ReadChunk_short(content, pos, size) ==
  LET end == IF pos + size > Len(content) THEN Len(content) ELSE pos + size
  IN  IF size < 0 THEN SubSeq(content, pos + 1, Len(content))
      ELSE IF end - pos < size THEN <<>>
      ELSE SubSeq(content, pos + 1, end)

\* faulty variant: one byte more than asked for is read
ReadChunk_over(content, pos, size) ==
  IF size <= 0 THEN <<>>
  ELSE SubSeq(content, pos + 1,
              IF pos + size + 1 > Len(content) THEN Len(content) ELSE pos + size + 1)

\* f.read(size) at offset pos of a regular file: all the rest when size < 0,
\* else up to size bytes
ReadChunk(content, pos, size) ==
  IF size < 0 THEN SubSeq(content, pos + 1, Len(content))
  ELSE SubSeq(content, pos + 1,
              IF pos + size > Len(content) THEN Len(content) ELSE pos + size)

\* a part size: an int of bytes, or a float (main's float(size_input) * 1024**3,
\* kept in tenths of a GiB; nan for float('nan'))
IntSize(n) == [float |-> FALSE, nan |-> FALSE, bytes |-> n, tenths |-> 0]
FloatSize(t) == [float |-> TRUE, nan |-> FALSE, bytes |-> 0, tenths |-> t]
NanSize == [float |-> TRUE, nan |-> TRUE, bytes |-> 0, tenths |-> 0]

\* lines 35-48: the read/write loop.  The source is read at its current offset
\* from the file as it is on disk; each chunk is written to a new or truncated
\* part file.  Yields the file system and the final part_num.
RECURSIVE SplitLoop(_, _, _, _, _, _)
SplitLoop(f, src, output_dir, size, pos, part_num) ==
  LET chunk == ReadChunk(f[src], pos, size)
      part == PartFilename(output_dir, src[2], part_num)
  IN  IF chunk = <<>> THEN [fs |-> f, part_num |-> part_num]
      ELSE SplitLoop([p \in DOMAIN f \cup {part} |-> IF p = part THEN chunk ELSE f[p]],
                     src, output_dir, size, pos + Len(chunk), part_num + 1)

\* output_dir.mkdir(parents=True, exist_ok=True)
Mkdir(e) == IF e.dir = "absent" THEN [e EXCEPT !.dir = "writable"] ELSE e

\* lines 14-58: the outcome of split_zip_file(src, OutDir, size) in file system f
\* and environment e: the return value, the files and the environment after it.
SplitOutcome(f, e, src, size) ==
  IF src \notin DOMAIN f                       \* FileNotFoundError
    THEN [ret |-> FALSE, fs |-> f, env |-> e, parts |-> 0]
  ELSE IF ~e.readable                          \* PermissionError
    THEN [ret |-> FALSE, fs |-> f, env |-> e, parts |-> 0]
  ELSE IF e.dir = "blocked"                    \* mkdir raises
    THEN [ret |-> FALSE, fs |-> f, env |-> e, parts |-> 0]
  ELSE IF Mkdir(e).dir # "writable"            \* PermissionError
    THEN [ret |-> FALSE, fs |-> f, env |-> Mkdir(e), parts |-> 0]
  ELSE IF size.float                           \* f.read(float) raises TypeError
    THEN [ret |-> FALSE, fs |-> f, env |-> Mkdir(e), parts |-> 0]
  ELSE LET r == SplitLoop(f, src, OutDir, size.bytes, 0, 1)
       IN  [ret |-> TRUE, fs |-> r.fs, env |-> Mkdir(e), parts |-> r.part_num - 1]

AZip == <<"a", ".", "z", "i", "p">>
ABZip == <<"a", ".", "b", ".", "z", "i", "p">>
XZip == <<"x", ".", "z", "i", "p">>

SourceNames == {AZip, ABZip}

\* the source files on disk, and one path where there is no file
Sources(f) == {p \in DOMAIN f : p[2] \in SourceNames}
MissingSource == <<InDir, XZip>>

SizeArgs == {IntSize(n) : n \in -1 .. MaxLen + 1}

split_zip_file(src, size) ==
  /\ steps < MaxOps
  /\ LET r == SplitOutcome(fs, env, src, size)
     IN  /\ fs' = r.fs
         /\ env' = r.env
         /\ last' = [op |-> "split", src |-> src, size |-> size, ret |-> r.ret,
                     parts |-> r.parts, main |-> FALSE,
                     empty_dir |-> Names(fs, OutDir) = {}]
  /\ pre' = fs
  /\ prev' = last
  /\ steps' = steps + 1
  /\ UNCHANGED img

(***************************************************************************)
(* splitZip.py: main, the size prompt                                      *)
(***************************************************************************)
GB == 1024 * 1024 * 1024

\* answers to "Enter maximum part size in GB": nothing, a decimal number (in
\* tenths), "nan", or text that float() rejects
SizeInputs ==
  {[kind |-> "empty", tenths |-> 0], [kind |-> "text", tenths |-> 0],
   [kind |-> "nan", tenths |-> 0]}
  \cup {[kind |-> "decimal", tenths |-> t] : t \in {-10, 0, 5, 10}}

\* lines 118-122: the default, or float(size_input) * 1024*1024*1024
ParseSize(size_input) ==
  CASE size_input.kind = "empty" -> IntSize(GB)
    [] size_input.kind = "nan" -> NanSize
    [] size_input.kind = "decimal" -> FloatSize(size_input.tenths)

\* lines 118-127: the answer leaves the prompt loop
SizeAccepted(size_input) ==
  \/ size_input.kind = "empty"
  \/ size_input.kind = "nan"                   \* nan <= 0 is False
  \/ size_input.kind = "decimal" /\ ~(size_input.tenths <= 0)

\* main with the source and the output directory already entered: get_valid_input
\* returns only an existing, readable .zip file and a writable directory (created
\* on request).  One answer to the size prompt: rejected and asked again, or
\* accepted and passed to split_zip_file.
main(src, size_input) ==
  /\ steps < MaxOps
  /\ src \in DOMAIN fs
  /\ LowerStr(Suffix(src[2])) = DotZip
  /\ env.readable
  /\ Mkdir(env).dir = "writable"
  /\ IF SizeAccepted(size_input)
     THEN LET r == SplitOutcome(fs, Mkdir(env), src, ParseSize(size_input))
          IN  /\ fs' = r.fs
              /\ env' = r.env
              /\ last' = [op |-> "split", src |-> src, size |-> ParseSize(size_input),
                          ret |-> r.ret, parts |-> r.parts, main |-> TRUE,
                          empty_dir |-> Names(fs, OutDir) = {}]
     ELSE /\ fs' = fs
          /\ env' = Mkdir(env)
          /\ last' = [op |-> "rejected", src |-> src, size_input |-> size_input]
  /\ pre' = fs
  /\ prev' = last
  /\ steps' = steps + 1
  /\ UNCHANGED img

(***************************************************************************)
(* Spec: one source file, split and reassembled                            *)
(***************************************************************************)
Byte == {0, 1}

Contents == UNION {[1..n -> Byte] : n \in 0..MaxLen}

Envs ==
  {[readable |-> TRUE, dir |-> d] : d \in {"writable", "readonly", "absent", "blocked"}}
  \cup {[readable |-> FALSE, dir |-> "writable"]}

NoImg == [pc |-> "off"]

Init ==
  /\ \E d \in {InDir, OutDir}, name \in SourceNames, bytes \in Contents :
       fs = [p \in {<<d, name>>} |-> bytes]
  /\ env \in Envs
  /\ Names(fs, OutDir) # {} => env.dir \in {"writable", "readonly"}
  /\ pre = fs
  /\ last = NoOp
  /\ prev = NoOp
  /\ steps = 0
  /\ img = NoImg

RZip == <<"r", ".", "z", "i", "p">>

\* what the user enters at the reassembler's prompts after a split: the common
\* part '<stem>.zip', and a new file or the first part as the output file
BaseNames(f) == {Stem(p[2]) \o DotZip : p \in Sources(f)}
OutputNames(f) == {RZip} \cup {PartFilename(OutDir, p[2], 1)[2] : p \in Sources(f)}

\* the reassembler is run in the output directory once it is there to write in
Next ==
  \/ \E src \in Sources(fs), size \in SizeArgs : split_zip_file(src, size)
  \/ split_zip_file(MissingSource, IntSize(1))
  \/ \E src \in Sources(fs), size_input \in SizeInputs : main(src, size_input)
  \/ \E base_name \in BaseNames(fs), output_file \in OutputNames(fs) :
       env.dir = "writable" /\ reassemble_files(base_name, output_file)

Spec == Init /\ [][Next]_vars

(***************************************************************************)
(* Claims about the splitter (under Spec)                                  *)
(***************************************************************************)
Ceil(l, sz) == (l + sz - 1) \div sz

\* the last operation was split_zip_file on an existing, readable source, into a
\* writable directory, with a positive int as the maximum part size
ValidSplit(op) ==
  /\ op.op = "split"
  /\ op.src \in DOMAIN pre
  /\ env.readable
  /\ env.dir = "writable"
  /\ ~op.size.float
  /\ op.size.bytes > 0

\* the files the last operation created or changed
Touched == {p \in DOMAIN fs : p \notin DOMAIN pre \/ fs[p] # pre[p]}

\* d is the counter i as the part names carry it: decimal, padded with zeros to
\* three digits, no padding beyond that
CounterText(d, i) ==
  /\ IsDigitStr(d)
  /\ IntOf(d) = i
  /\ Len(d) >= 3
  /\ Len(d) > 3 => d[1] # "0"

\* the files of the output directory named '<stem>.zip.<counter i>', i in 1..n
NumberedParts(f, name, n) ==
  {p \in DOMAIN f :
     /\ p[1] = OutDir
     /\ StartsWith(p[2], Stem(name) \o DotZipDot)
     /\ \E i \in 1..n :
          CounterText(SubSeq(p[2], Len(Stem(name)) + 6, Len(p[2])), i)}

CounterProbes == {1, 9, 10, 99, 100, 999, 1000, 1001, 10000}

\* C2: a split of a source of length L with a positive part size S succeeds and
\* writes exactly ceil(L/S) files, '<stem>.zip.<NNN>' with NNN the counter
\* 1..ceil(L/S) padded to at least three digits, one file per value; for L = 0 it
\* succeeds and writes nothing.
C2_PartCount ==
  /\ ValidSplit(last) =>
       LET n == Ceil(Len(pre[last.src]), last.size.bytes)
           expected == NumberedParts(fs, last.src[2], n)
       IN  /\ last.ret = TRUE
           /\ last.parts = n
           /\ Cardinality(expected) = n
           /\ Touched \subseteq expected
           /\ last.empty_dir => {p \in DOMAIN fs : p[1] = OutDir} = expected
  /\ \A k \in CounterProbes : CounterText(Fmt03d(k), k)

C2_Witness ==
  /\ ValidSplit(last)
  /\ last.ret = TRUE
  /\ last.parts = 3
  /\ Cardinality(Touched) = 3

C2_WitnessEmpty ==
  /\ ValidSplit(last)
  /\ Len(pre[last.src]) = 0
  /\ last.ret = TRUE

\* C3: after a split with a positive part size S every part holds at most S
\* bytes and at least one, every part but the last holds exactly S, and the file
\* that would follow the last part is not written.
C3_PartSizes ==
  (ValidSplit(last) /\ last.ret = TRUE) =>
    LET n == last.parts
        sz == last.size.bytes
        part(i) == PartFilename(OutDir, last.src[2], i)
    IN  /\ \A i \in 1..n :
             /\ part(i) \in DOMAIN fs
             /\ Len(fs[part(i)]) >= 1
             /\ Len(fs[part(i)]) <= sz
             /\ i < n => Len(fs[part(i)]) = sz
        /\ part(n + 1) \notin Touched
        /\ \A p \in Touched : Len(fs[p]) >= 1 /\ Len(fs[p]) <= sz

\* a source whose length is a multiple of S, in more than one part
C3_Witness ==
  /\ ValidSplit(last)
  /\ last.ret = TRUE
  /\ last.parts = 2
  /\ Len(pre[last.src]) = 2 * last.size.bytes
  /\ \A p \in Touched : Len(fs[p]) = last.size.bytes

\* C1: a source F of at least one byte is split with a positive part size into an
\* empty directory, and the parts are reassembled there under the base name
\* '<stem>.zip' into a new file: the new file holds F.
RoundTrip ==
  /\ last.op = "reassemble"
  /\ ValidSplit(prev)
  /\ prev.empty_dir
  /\ Len(pre[prev.src]) >= 1
  /\ \/ last.all_files = <<>>
     \/ /\ last.base_name = Stem(prev.src[2]) \o DotZip
        /\ <<OutDir, last.output_file>> \notin DOMAIN pre

C1_RoundTrip ==
  RoundTrip =>
    /\ last.ret = "success"
    /\ <<OutDir, last.output_file>> \in DOMAIN fs
    /\ fs[<<OutDir, last.output_file>>] = pre[prev.src]

\* part size below the source's length
C1_Witness ==
  /\ RoundTrip
  /\ last.ret = "success"
  /\ prev.size.bytes < Len(pre[prev.src])
  /\ Len(last.parts) = 2
  /\ fs[<<OutDir, last.output_file>>] = pre[prev.src]

\* part size equal to the source's length, and above it
C1_WitnessEqual ==
  /\ RoundTrip
  /\ prev.size.bytes = Len(pre[prev.src])
  /\ fs[<<OutDir, last.output_file>>] = pre[prev.src]

C1_WitnessAbove ==
  /\ RoundTrip
  /\ prev.size.bytes > Len(pre[prev.src])
  /\ fs[<<OutDir, last.output_file>>] = pre[prev.src]

\* C8: split_zip_file on a missing or unreadable source, or into a directory that
\* cannot be written, returns False and writes no file; and whatever it returns,
\* the source is still there with the bytes it had.
SplitRefused(op) ==
  /\ op.op = "split"
  /\ \/ op.src \notin DOMAIN pre
     \/ ~env.readable
     \/ env.dir \in {"readonly", "blocked"}

C8_SplitFrame ==
  /\ SplitRefused(last) => last.ret = FALSE /\ fs = pre
  /\ (last.op = "split" /\ last.src \in DOMAIN pre) =>
       last.src \in DOMAIN fs /\ fs[last.src] = pre[last.src]

\* a source in the output directory itself, split with success into several parts
C8_WitnessSplit ==
  /\ last.op = "split"
  /\ last.src[1] = OutDir
  /\ last.ret = TRUE
  /\ last.parts >= 2
  /\ fs[last.src] = pre[last.src]

\* refused for a directory that cannot be written, the source lying in it
C8_WitnessRefused ==
  /\ SplitRefused(last)
  /\ env.dir = "readonly"
  /\ last.src[1] = OutDir
  /\ last.ret = FALSE
  /\ fs[last.src] = pre[last.src]

\* C7 (as claimed): through main, a split runs only with a positive size, and
\* every size the prompt accepts gives a successful split whose parts hold at
\* most that many bytes.
C7_SizeValidation ==
  (last.op = "split" /\ last.main) =>
    /\ last.size.float => ~last.size.nan /\ last.size.tenths > 0
    /\ ~last.size.float => last.size.bytes > 0
    /\ last.ret = TRUE
    /\ \A p \in Touched : ~last.size.float /\ Len(fs[p]) <= last.size.bytes

\* split_zip_file itself (as claimed): it reports success only for a positive size
C7_SplitChecksSize ==
  (last.op = "split" /\ last.ret = TRUE) => ~last.size.float /\ last.size.bytes > 0

(***************************************************************************)
(* SpecDir: one run of the reassembler in a directory of any files         *)
(***************************************************************************)
DirNames ==
  << <<"a", ".", "z", "i", "p", ".", "0", "0", "1">>,
     <<"a", ".", "z", "i", "p", ".", "0", "0", "2">>,
     <<"a", ".", "z", "i", "p", ".", "0", "1", "0">>,
     <<"a", ".", "z", "i", "p", ".", "9", "9", "9">>,
     <<"a", ".", "z", "i", "p", ".", "1", "0", "0", "0">>,
     <<"a", "b", ".", "z", "i", "p", ".", "0", "0", "1">>,
     <<"a", ".", "z", "i", "p", ".", "z", "i", "p", ".", "0", "0", "1">>,
     <<"A", ".", "Z", "I", "P", ".", "0", "0", "3">>,
     <<"f", ".", "9">>,
     <<"f", ".", "1", "0">>,
     <<"f", ".", "2">>,
     <<"x", "0", "0", "1">>,
     RZip >>

\* each file holds one byte of its own, so the output shows what was written
\* and in which order
DirBytes(name) == <<CHOOSE k \in 1..Len(DirNames) : DirNames[k] = name>>

DirBaseNames == {AZip, <<"a">>, <<"a", "b", ".", "z", "i", "p">>, XZip, <<>>}
DirOutputNames == {RZip, DirNames[1], DirNames[2]}

InitDir ==
  /\ \E S \in SUBSET {DirNames[k] : k \in 1..Len(DirNames)} :
       /\ Cardinality(S) <= MaxDirFiles
       /\ fs = [p \in {<<OutDir, n>> : n \in S} |-> DirBytes(p[2])]
  /\ env = [readable |-> TRUE, dir |-> "writable"]
  /\ pre = fs
  /\ last = NoOp
  /\ prev = NoOp
  /\ steps = 0
  /\ img = NoImg

NextDir ==
  \E base_name \in DirBaseNames, output_file \in DirOutputNames :
    steps = 0 /\ reassemble_files(base_name, output_file)

SpecDir == InitDir /\ [][NextDir]_vars

(***************************************************************************)
(* Claims about the reassembler (under SpecDir)                            *)
(***************************************************************************)
\* a part name is '<base>.<digits>': the base and the sequence number of a name
\* that ends in a '.' and digits
IsPartName(n) == LastDot(n) > 1 /\ IsDigitStr(SubSeq(n, LastDot(n) + 1, Len(n)))
PartBase(n) == SubSeq(n, 1, LastDot(n) - 1)
PartSeq(n) == IntOf(SubSeq(n, LastDot(n) + 1, Len(n)))

\* names come in the sequence seq by sequence number within one base name,
\* letter case set aside
InSeqOrder(seq) ==
  \A i, j \in 1..Len(seq) :
    ( /\ IsPartName(seq[i]) /\ IsPartName(seq[j])
      /\ LowerStr(PartBase(seq[i])) = LowerStr(PartBase(seq[j]))
      /\ PartSeq(seq[i]) < PartSeq(seq[j]) ) => i < j

RECURSIVE BytesOf(_, _)
BytesOf(f, seq) ==
  IF seq = <<>> THEN <<>> ELSE f[<<OutDir, Head(seq)>>] \o BytesOf(f, Tail(seq))

F2 == DirNames[11]
F9 == DirNames[9]
F10 == DirNames[10]

C5_PrefixFilter ==
  ( /\ last.op = "reassemble"
    /\ \E n \in Names(pre, OutDir) : GlobMatch(n) /\ IsPartName(n)
                                      /\ PartBase(n) = last.base_name ) =>
    /\ last.ret = "success"
    /\ \A i \in 1..Len(last.parts) :
         IsPartName(last.parts[i]) /\ PartBase(last.parts[i]) = last.base_name
    /\ \A n \in Names(pre, OutDir) :
         (GlobMatch(n) /\ IsPartName(n) /\ PartBase(n) = last.base_name)
           => \E i \in 1..Len(last.parts) : last.parts[i] = n

\* C5 (amended): the files written are exactly the files of the directory with a
\* '.' before their last three characters, those three being digits, whose name
\* begins with B; with a.zip.001, a.zip.002, ab.zip.001 and B = 'a.zip' these are
\* the first two.
C5_StartsWith ==
  last.op = "reassemble" =>
    /\ {last.parts[i] : i \in 1..Len(last.parts)} =
         {n \in Names(pre, OutDir) :
            /\ Len(n) >= 4
            /\ IsDigitStr(SubSeq(n, Len(n) - 2, Len(n)))
            /\ \E k \in 1..Len(n) - 3 : n[k] = "."
            /\ Len(n) >= Len(last.base_name)
            /\ \A k \in 1..Len(last.base_name) : n[k] = last.base_name[k]}
    /\ ( /\ Names(pre, OutDir) = {DirNames[1], DirNames[2], DirNames[6]}
         /\ last.base_name = AZip ) =>
         last.parts = <<DirNames[1], DirNames[2]>>

\* the example of the claim
C5_Witness ==
  /\ last.op = "reassemble"
  /\ Names(pre, OutDir) = {DirNames[1], DirNames[2], DirNames[6]}
  /\ last.base_name = AZip
  /\ last.ret = "success"
  /\ last.parts = <<DirNames[1], DirNames[2]>>

\* a part of base name 'a.zip.zip' written with those of 'a.zip'
C5_WitnessOtherBase ==
  /\ last.op = "reassemble"
  /\ last.base_name = AZip
  /\ last.parts = <<DirNames[1], DirNames[7]>>
  /\ last.output_file = RZip
  /\ fs[<<OutDir, RZip>>] = <<1, 7>>

\* C6: with no file with a numeric part suffix in the directory, or none of them
\* beginning with the entered base name, the run ends in an error and the
\* directory is as it was: no output file created, truncated or written.
NoMatch ==
  /\ last.op = "reassemble"
  /\ {n \in Names(pre, OutDir) : GlobMatch(n) /\ StartsWith(n, last.base_name)} = {}

C6_NoMatch ==
  NoMatch => last.ret \in {"no_split_files", "no_match"} /\ fs = pre

\* split files are detected, none begins with the base name, and the output
\* file named already exists
C6_Witness ==
  /\ NoMatch
  /\ last.ret = "no_match"
  /\ <<OutDir, last.output_file>> \in DOMAIN pre
  /\ fs = pre

C6_WitnessNone ==
  /\ NoMatch
  /\ last.ret = "no_split_files"
  /\ Names(pre, OutDir) # {}

\* C9 (as claimed): after a run every part it read holds the bytes it held before
C9_PartsUntouched ==
  last.op = "reassemble" =>
    \A i \in 1..Len(last.parts) :
      fs[<<OutDir, last.parts[i]>>] = pre[<<OutDir, last.parts[i]>>]

\* what the code does: only the output file is created or changed
C9_OnlyOutput ==
  last.op = "reassemble" =>
    \A p \in DOMAIN fs \cup DOMAIN pre :
      p # <<OutDir, last.output_file>> => p \in DOMAIN fs /\ p \in DOMAIN pre /\ fs[p] = pre[p]

(***************************************************************************)
(* optWebPImages.py: resize_image                                          *)
(***************************************************************************)
StartQuality == 90
MinQuality == 10
QualityStep == 5
DefaultTargetKb == 50

\* target_size_kb: main's 50, and another
TargetsKb == {DefaultTargetKb, 4 * DefaultTargetKb}

\* sizes in bytes an encoding may come out at, around a target of t KB
EncodedSizes(t) == {t * 1024 - 1, t * 1024, t * 1024 + 1, 2 * t * 1024}

\* faulty variant: the floor itself is not tried
LoopContinues_above(quality) == quality > MinQuality

\* line 20: while quality >= min_quality
LoopContinues(quality) == quality >= MinQuality

\* lines 27-28: os.path.getsize(output_path) / 1024 <= target_size_kb
SizeOk(bytes, target_kb) == bytes <= target_kb * 1024

NoFile == [quality |-> 0, bytes |-> 0]

InitImg ==
  /\ fs = [p \in {} |-> <<>>]
  /\ env = [readable |-> TRUE, dir |-> "writable"]
  /\ pre = fs
  /\ last = NoOp
  /\ prev = NoOp
  /\ steps = 0
  /\ \E t \in TargetsKb :
       img = [pc |-> "loop", quality |-> StartQuality, target |-> t, encodes |-> 0,
              over |-> 0, disk |-> NoFile, ret |-> FALSE, err |-> FALSE]

\* lines 21-31: one pass of the loop: encode at the current quality over the
\* output file, return True if it is small enough, else lower the quality
Encode ==
  /\ img.pc = "loop"
  /\ LoopContinues(img.quality)
  /\ \E bytes \in EncodedSizes(img.target) :
       img' = [img EXCEPT
                 !.disk = [quality |-> img.quality, bytes |-> bytes],
                 !.encodes = @ + 1,
                 !.over = IF SizeOk(bytes, img.target) THEN @ ELSE @ + 1,
                 !.pc = IF SizeOk(bytes, img.target) THEN "done" ELSE "loop",
                 !.ret = SizeOk(bytes, img.target),
                 !.quality = IF SizeOk(bytes, img.target) THEN @ ELSE @ - QualityStep]
  /\ UNCHANGED <<fs, env, last, prev, pre, steps>>

\* lines 33-34: the loop ran out: return False
GiveUp ==
  /\ img.pc = "loop"
  /\ ~LoopContinues(img.quality)
  /\ img' = [img EXCEPT !.pc = "done", !.ret = FALSE]
  /\ UNCHANGED <<fs, env, last, prev, pre, steps>>

\* lines 35-37: Image.open or img.save raises: return False
Raise ==
  /\ img.pc = "loop"
  /\ LoopContinues(img.quality)
  /\ img' = [img EXCEPT !.pc = "done", !.ret = FALSE, !.err = TRUE]
  /\ UNCHANGED <<fs, env, last, prev, pre, steps>>

NextImg == Encode \/ GiveUp \/ Raise

SpecImg == InitImg /\ [][NextImg]_vars

\* C10: the encodes are at quality 90, 85, ..., 10 in that order; the search
\* returns True at the first encoding of at most the target size, which is the
\* file on disk; with no encoding small enough (and no exception) it returns
\* False after the encode at quality 10, which is the file on disk; there are
\* never more than 17 encodes.
C10_QualitySearch ==
  /\ img.encodes <= 17
  /\ img.encodes >= 1 =>
       img.disk.quality = StartQuality - QualityStep * (img.encodes - 1)
  /\ img.pc = "loop" =>
       /\ img.quality = StartQuality - QualityStep * img.encodes
       /\ img.over = img.encodes
       /\ img.encodes = 17 => ~LoopContinues(img.quality)
  /\ (img.pc = "done" /\ img.ret) =>
       /\ img.over = img.encodes - 1
       /\ img.disk.bytes <= img.target * 1024
  /\ (img.pc = "done" /\ ~img.ret /\ ~img.err) =>
       /\ img.encodes = 17
       /\ img.over = 17
       /\ img.disk.quality = 10
       /\ img.disk.bytes > img.target * 1024

\* every quality tried and none small enough
C10_Witness ==
  /\ img.pc = "done"
  /\ ~img.ret
  /\ ~img.err
  /\ img.encodes = 17
  /\ img.disk.quality = 10

C10_WitnessFound ==
  /\ img.pc = "done"
  /\ img.ret
  /\ img.encodes = 4
  /\ img.disk = [quality |-> 75, bytes |-> img.target * 1024]

(***************************************************************************)
(* SpecRepeat: two sources of one stem, split into the same directory      *)
(***************************************************************************)
InDir2 == "in2"

InitRepeat ==
  /\ \E b1 \in Contents, b2 \in Contents :
       fs = [p \in {<<InDir, AZip>>, <<InDir2, AZip>>} |->
               IF p[1] = InDir THEN b1 ELSE b2]
  /\ env = [readable |-> TRUE, dir |-> "writable"]
  /\ pre = fs
  /\ last = NoOp
  /\ prev = NoOp
  /\ steps = 0
  /\ img = NoImg

\* the part sizes of the repeated splits: positive byte counts
PositiveSizes == {size \in SizeArgs : size.bytes > 0}

NextRepeat ==
  \/ \E src \in Sources(fs), size \in PositiveSizes : split_zip_file(src, size)
  \/ reassemble_files(AZip, RZip)

SpecRepeat == InitRepeat /\ [][NextRepeat]_vars

\* the files '<stem>.zip.<digits>' of the output directory
SplitSet(f, name) ==
  {p \in DOMAIN f :
     /\ p[1] = OutDir
     /\ StartsWith(p[2], Stem(name) \o DotZipDot)
     /\ IsDigitStr(SubSeq(p[2], Len(Stem(name)) + 6, Len(p[2])))}

SeqNumber(p, name) == IntOf(SubSeq(p[2], Len(Stem(name)) + 6, Len(p[2])))

RECURSIVE TotalLen(_, _)
TotalLen(f, paths) ==
  IF paths = {} THEN 0
  ELSE LET p == CHOOSE q \in paths : TRUE
       IN  Len(f[p]) + TotalLen(f, paths \ {p})

\* only successful splits have run
OnlySplits ==
  /\ last.op = "split" /\ last.ret = TRUE
  /\ prev.op = "none" \/ (prev.op = "split" /\ prev.ret = TRUE)

\* C11 (as claimed): after successful splits of sources of one stem into one
\* directory, the files '<stem>.zip.<digits>' are numbered 1..n without a gap and
\* hold together as many bytes as the source split last.
C11_SplitSet ==
  OnlySplits =>
    LET set == SplitSet(fs, last.src[2])
    IN  /\ {SeqNumber(p, last.src[2]) : p \in set} = 1..Cardinality(set)
        /\ TotalLen(fs, set) = Len(fs[last.src])

\* what the code keeps: the numbering has no gap; parts of an earlier, longer
\* split stay behind the parts of the last one
C11_Contiguous ==
  OnlySplits =>
    LET set == SplitSet(fs, last.src[2])
    IN  /\ {SeqNumber(p, last.src[2]) : p \in set} = 1..Cardinality(set)
        /\ TotalLen(fs, set) >= Len(fs[last.src])

====
